---- MODULE Spec2Model ----
(***************************************************************************)
(* BioMed Analyzer (src/main.py): the SQLite store of DatabaseManager, the *)
(* login window, the role factory, and the image and signal workflows.     *)
(* One action per button handler; the store is the four tables.            *)
(***************************************************************************)
EXTENDS Integers, Sequences, FiniteSets, TLC

\* ------------------------------------------------------------------ bounds
MaxUsers == 4        \* rows of the users table the model lets exist
MaxRecords == 2      \* audit rows (three tables together) the model lets exist
MaxDim == 2          \* largest extent of one axis of a volume

\* --------------------------------------------------------- program constants
QSliderDefaultMaximum == 99   \* QSlider() as constructed: range [0, 99], value 0
RGBChannels == 3              \* imshow accepts (M, N, 3) ...
RGBAChannels == 4             \* ... and (M, N, 4)

None == <<>>                  \* Python's None where the value is a tuple or an array
NoMsg == ""                   \* the handler showed no QMessageBox
NoWindow == [kind |-> "None", user_id |-> 0]      \* LoginWindow.main_window is None
NoImage == [src |-> "None", ops |-> <<>>]         \* current_image = None

\* ------------------------------------------------------------------- inputs
Usernames == {"", "admin_img", "admin_sig", "ana", "luis"}
Passwords == {"", "admin123", "clave1"}
UserTypes == {"imagen", "senal"}

VARIABLES
    users,            \* table users: rows [id, username, password, user_type]
    dicom_files,      \* table dicom_files
    image_analysis,   \* table image_analysis
    signal_analysis,  \* table signal_analysis
    running,          \* the process is alive (app.exec_() is dispatching events)
    login_visible,    \* LoginWindow is shown
    main_window,      \* LoginWindow.main_window: NoWindow or [kind, user_id]
    msg,              \* the QMessageBox text the last handler showed, NoMsg if none
    dicom_volume,     \* ImageExpertWindow.dicom_volume: None or the array's shape
    sliders,          \* slider_axial, slider_coronal, slider_sagital (axes 1, 2, 3)
    current_image,    \* ImageExpertWindow.current_image: NoImage or [src, ops]
    current_image_path, \* ImageExpertWindow.current_image_path, "" while not set
    cell_count,       \* the count shown by the cell_count label, -1 while "-"
    mat_data,         \* SignalExpertWindow.mat_data: "None" or the file it was read from
    signal_combo,     \* the array selector: [items, index], index 0 when nothing is current
    df,               \* SignalExpertWindow.df: "None" or the file it was read from
    csv_x,            \* the x-column selector
    csv_y             \* the y-column selector

store == <<users, dicom_files, image_analysis, signal_analysis>>
audit == <<dicom_files, image_analysis, signal_analysis>>
session == <<running, login_visible, main_window>>
image_state == <<dicom_volume, sliders, current_image, current_image_path, cell_count>>
signal_state == <<mat_data, signal_combo, df, csv_x, csv_y>>
vars == <<users, dicom_files, image_analysis, signal_analysis,
          running, login_visible, main_window, msg,
          dicom_volume, sliders, current_image, current_image_path, cell_count,
          mat_data, signal_combo, df, csv_x, csv_y>>

\* ------------------------------------------------------------ DatabaseManager

\* hashlib.sha256(password.encode()).hexdigest(), first eight hex digits
sha256(password) ==
    CASE password = "" -> "e3b0c442"
      [] password = "admin123" -> "240be518"
      [] password = "clave1" -> "9010e723"
      [] OTHER -> "998aab96"

Range(s) == {s[i] : i \in 1..Len(s)}

\* register_user storing the password as typed, not its digest
register_user_plain(tbl, username, password, user_type) ==
    IF \E u \in Range(tbl) : u.username = username
    THEN [ok |-> FALSE, users |-> tbl]
    ELSE [ok |-> TRUE,
          users |-> Append(tbl, [id |-> Len(tbl) + 1,
                                 username |-> username,
                                 password |-> password,
                                 user_type |-> user_type])]

\* register_user as INSERT OR REPLACE: a taken username has its row rewritten
register_user_replace(tbl, username, password, user_type) ==
    IF \E u \in Range(tbl) : u.username = username
    THEN [ok |-> FALSE,
          users |-> [i \in 1..Len(tbl) |->
                        IF tbl[i].username = username
                        THEN [tbl[i] EXCEPT !.password = sha256(password),
                                            !.user_type = user_type]
                        ELSE tbl[i]]]
    ELSE [ok |-> TRUE,
          users |-> Append(tbl, [id |-> Len(tbl) + 1,
                                 username |-> username,
                                 password |-> sha256(password),
                                 user_type |-> user_type])]

\* INSERT INTO users VALUES (NULL, ?, ?, ?): AUTOINCREMENT id, UNIQUE username.
\* The result is [ok, users]; IntegrityError is ok = FALSE with the table as it was.
register_user(tbl, username, password, user_type) ==
    IF \E u \in Range(tbl) : u.username = username
    THEN [ok |-> FALSE, users |-> tbl]
    ELSE [ok |-> TRUE,
          users |-> Append(tbl, [id |-> Len(tbl) + 1,
                                 username |-> username,
                                 password |-> sha256(password),
                                 user_type |-> user_type])]

\* login_user with WHERE username=? alone
login_user_any_password(tbl, username, password) ==
    LET rows == {i \in 1..Len(tbl) : tbl[i].username = username}
    IN  IF rows = {} THEN None
        ELSE LET i == CHOOSE k \in rows : \A j \in rows : k <= j
             IN  <<tbl[i].id, tbl[i].user_type>>

\* SELECT id, user_type FROM users WHERE username=? AND password=?; fetchone()
login_user(tbl, username, password) ==
    LET hashed == sha256(password)
        rows == {i \in 1..Len(tbl) : tbl[i].username = username
                                      /\ tbl[i].password = hashed}
    IN  IF rows = {} THEN None
        ELSE LET i == CHOOSE k \in rows : \A j \in rows : k <= j
             IN  <<tbl[i].id, tbl[i].user_type>>

\* __main__: ensure one seed account, skipping the insert when the login works
EnsureSeed(tbl, username, user_type) ==
    IF login_user(tbl, username, "admin123") = None
    THEN register_user(tbl, username, "admin123", user_type).users
    ELSE tbl

\* the bootstrap with the second check copied from the first
Bootstrap_copied_check(tbl) ==
    LET t1 == EnsureSeed(tbl, "admin_img", "imagen")
    IN  IF login_user(tbl, "admin_img", "admin123") = None
        THEN register_user(t1, "admin_sig", "admin123", "imagen").users
        ELSE t1

\* __main__: both seed accounts
Bootstrap(tbl) ==
    EnsureSeed(EnsureSeed(tbl, "admin_img", "imagen"), "admin_sig", "senal")

\* the factory with its two branches exchanged
MainWindow_swapped(user_id, user_type) ==
    IF user_type = "imagen"
    THEN [kind |-> "SignalExpertWindow", user_id |-> user_id]
    ELSE [kind |-> "ImageExpertWindow", user_id |-> user_id]

\* MainWindow.__new__: the window the factory returns for a stored role
MainWindow(user_id, user_type) ==
    IF user_type = "imagen"
    THEN [kind |-> "ImageExpertWindow", user_id |-> user_id]
    ELSE [kind |-> "SignalExpertWindow", user_id |-> user_id]

\* save_dicom_analysis leaving the user_id column out of the INSERT
save_dicom_analysis_no_owner(tbl, patient_id, patient_name, dicom_path, nifti_path, user_id) ==
    Append(tbl, [id |-> Len(tbl) + 1,
                 patient_id |-> patient_id,
                 patient_name |-> patient_name,
                 dicom_path |-> dicom_path,
                 nifti_path |-> nifti_path,
                 user_id |-> 0])

\* INSERT INTO dicom_files (patient_id, patient_name, dicom_path, nifti_path, user_id)
save_dicom_analysis(tbl, patient_id, patient_name, dicom_path, nifti_path, user_id) ==
    Append(tbl, [id |-> Len(tbl) + 1,
                 patient_id |-> patient_id,
                 patient_name |-> patient_name,
                 dicom_path |-> dicom_path,
                 nifti_path |-> nifti_path,
                 user_id |-> user_id])

\* save_image_analysis as an UPDATE of the file's latest row when it has one
save_image_analysis_update(tbl, file_path, analysis_type, params, result, user_id) ==
    IF tbl # <<>> /\ tbl[Len(tbl)].file_path = file_path
    THEN [tbl EXCEPT ![Len(tbl)] = [@ EXCEPT !.analysis_type = analysis_type,
                                               !.parameters = params,
                                               !.result = result,
                                               !.user_id = user_id]]
    ELSE Append(tbl, [id |-> Len(tbl) + 1,
                      file_path |-> file_path,
                      analysis_type |-> analysis_type,
                      parameters |-> params,
                      result |-> result,
                      user_id |-> user_id])

\* INSERT INTO image_analysis (file_path, analysis_type, parameters, result, user_id)
save_image_analysis(tbl, file_path, analysis_type, params, result, user_id) ==
    Append(tbl, [id |-> Len(tbl) + 1,
                 file_path |-> file_path,
                 analysis_type |-> analysis_type,
                 parameters |-> params,
                 result |-> result,
                 user_id |-> user_id])

\* INSERT INTO signal_analysis (file_path, signal_type, analysis_type, parameters, result, user_id)
save_signal_analysis(tbl, file_path, signal_type, analysis_type, params, result, user_id) ==
    Append(tbl, [id |-> Len(tbl) + 1,
                 file_path |-> file_path,
                 signal_type |-> signal_type,
                 analysis_type |-> analysis_type,
                 parameters |-> params,
                 result |-> result,
                 user_id |-> user_id])

\* rows of the three audit tables together
AuditCount == Len(dicom_files) + Len(image_analysis) + Len(signal_analysis)

\* ---------------------------------------------------------------- QSlider
\* A slider is [maximum, value, enabled]; its minimum stays 0. Each setter's
\* result carries `emitted`: whether valueChanged was emitted.

NewSlider == [maximum |-> QSliderDefaultMaximum, value |-> 0, enabled |-> FALSE]

\* QSlider.setMaximum: the value is clamped into the new range
setMaximum(s, m) ==
    LET v == IF s.value > m THEN m ELSE s.value
    IN  [slider |-> [s EXCEPT !.maximum = m, !.value = v], emitted |-> v # s.value]

\* QSlider.setValue: the value is clamped into the range
setValue(s, x) ==
    LET v == IF x > s.maximum THEN s.maximum ELSE IF x < 0 THEN 0 ELSE x
    IN  [slider |-> [s EXCEPT !.value = v], emitted |-> v # s.value]

\* ax.imshow(img) raises TypeError unless img is (M, N), (M, N, 3) or (M, N, 4)
ImshowRaises(viewshape) ==
    ~ \/ Len(viewshape) = 2
      \/ Len(viewshape) = 3 /\ viewshape[3] \in {RGBChannels, RGBAChannels}

\* update_dicom_view raises: the volume is None, has fewer than three axes, a
\* slider value is outside its axis, or a cross-section is no image
update_dicom_view_raises(vol, sl) ==
    \/ vol = None
    \/ Len(vol) < 3
    \/ \E a \in 1..3 : sl[a].value >= vol[a]
    \/ ImshowRaises(Tail(vol))

\* the loop's turn with setMaximum(dim) for setMaximum(dim - 1)
ConfigureSlider_maximum_dim(vol, st, a) ==
    LET r1 == setMaximum(st.sliders[a], vol[a])
        sl1 == [st.sliders EXCEPT ![a] = r1.slider]
        r2 == setValue(r1.slider, vol[a] \div 2)
        sl2 == [st.sliders EXCEPT ![a] = [r2.slider EXCEPT !.enabled = TRUE]]
    IN  [sliders |-> sl2, raised |-> st.raised]

\* One turn of the loop of load_dicom / view_nifti over zip(sliders, shape):
\* setMaximum(dim - 1), setValue(dim // 2), setEnabled(True). update_dicom_view is
\* connected to valueChanged and runs inside either setter; `raised` records
\* that a run of it raised.
ConfigureSlider(vol, st, a) ==
    LET r1 == setMaximum(st.sliders[a], vol[a] - 1)
        sl1 == [st.sliders EXCEPT ![a] = r1.slider]
        e1 == r1.emitted /\ update_dicom_view_raises(vol, sl1)
        r2 == setValue(r1.slider, vol[a] \div 2)
        sl2 == [st.sliders EXCEPT ![a] = [r2.slider EXCEPT !.enabled = TRUE]]
        e2 == r2.emitted /\ update_dicom_view_raises(vol, [sl1 EXCEPT ![a] = r2.slider])
    IN  [sliders |-> sl2, raised |-> st.raised \/ e1 \/ e2]

\* the whole loop: zip stops at the shorter of the three sliders and the shape
RECURSIVE ConfigureFrom(_, _, _)
ConfigureFrom(vol, st, a) ==
    IF a > 3 \/ a > Len(vol) THEN st
    ELSE ConfigureFrom(vol, ConfigureSlider(vol, st, a), a + 1)

ConfigureSliders(vol, sl) == ConfigureFrom(vol, [sliders |-> sl, raised |-> FALSE], 1)

\* The runs of update_dicom_view inside one turn of the loop, in order: the
\* sliders as the callback of setMaximum reads them, then as that of setValue
\* does. Each setter runs the callback only when it changed the value.
RefreshesOfSlider(vol, sl, a) ==
    LET r1 == setMaximum(sl[a], vol[a] - 1)
        sl1 == [sl EXCEPT ![a] = r1.slider]
        r2 == setValue(r1.slider, vol[a] \div 2)
    IN  (IF r1.emitted THEN <<sl1>> ELSE <<>>)
          \o (IF r2.emitted THEN <<[sl1 EXCEPT ![a] = r2.slider]>> ELSE <<>>)

\* the runs of update_dicom_view inside the whole loop, in order
RECURSIVE RefreshesFrom(_, _, _)
RefreshesFrom(vol, sl, a) ==
    IF a > 3 \/ a > Len(vol) THEN <<>>
    ELSE RefreshesOfSlider(vol, sl, a)
           \o RefreshesFrom(vol, ConfigureSlider(vol, [sliders |-> sl, raised |-> FALSE], a).sliders,
                            a + 1)

\* ------------------------------------------------------------ files on disk
DicomDirs == {"", "estudio"}                 \* "" is the cancelled dialog
NiftiFiles == {"", "vol.nii"}
ImageFiles == {"", "celulas.png", "roto.png"}
ReadableImages == {"celulas.png", "tejido.png"}
SavePaths == {"", "salida"}

Shapes(n) == [1..n -> 1..MaxDim]
\* a stack of slices is (N, R, C), or (N, R, C, K) when each slice has K planes
DicomShapes == Shapes(3) \cup {<<1, 1, 1, 1>>, <<1, 1, 1, RGBChannels>>}
\* a NIfTI image may also be two-dimensional
NiftiShapes == DicomShapes \cup {<<MaxDim, MaxDim>>}

\* getattr(first_slice, 'PatientID', ''), str(getattr(first_slice, 'PatientName', ''))
PatientID(dir_path) == "P-" \o dir_path
PatientName(dir_path) == "N-" \o dir_path

\* cv2.imread: the decoded BGR image, or None when the file cannot be read
imread(filepath) ==
    IF filepath \in ReadableImages THEN [src |-> filepath, ops |-> <<>>] ELSE NoImage

MorphOps == {"Apertura", "Cierre", "Gradiente"}
MorphKernels == {"3x3", "5x5", "7x7"}

\* int(self.morph_kernel.currentText().split('x')[0])
kernel_size(text) ==
    CASE text = "3x3" -> 3
      [] text = "5x5" -> 5
      [] OTHER -> 7

\* morphologyEx on the image first loaded, not on the working image
morphologyEx_on_loaded(img, op, k) == [img EXCEPT !.ops = <<<<op, k>>>>]

\* cv2.morphologyEx(gray, op, kernel): the image, one operation further
morphologyEx(img, op, k) == [img EXCEPT !.ops = Append(@, <<op, k>>)]

\* str(params) of {'operation': ..., 'kernel_size': ...}
MorphParams(op, k) ==
    "{'operation': '" \o op \o "', 'kernel_size': " \o ToString(k) \o "}"

RECURSIVE OpWeight(_)
OpWeight(ops) ==
    IF ops = <<>> THEN 0
    ELSE (IF Head(ops)[1] = "Apertura" THEN 1 ELSE 0) + OpWeight(Tail(ops))

\* num_labels of cv2.connectedComponents after Otsu and the 3x3 opening: a
\* function of the pixels alone; the background label counts for one
num_labels(img) ==
    LET base == 4
        lost == OpWeight(img.ops)
    IN  1 + (IF lost > base THEN 0 ELSE base - lost)

\* a slot that raised: PyQt5 calls qFatal(), or logs the traceback and returns.
\* The handlers take `abort`, which of the two this build does; it is an input
\* only of a step in which a slot raised.
Crashed ==
    /\ running' = FALSE
    /\ msg' = NoMsg
    /\ dicom_volume' = None
    /\ sliders' = [a \in 1..3 |-> NewSlider]
    /\ current_image' = NoImage
    /\ current_image_path' = ""
    /\ cell_count' = -1
    /\ UNCHANGED <<login_visible, main_window, signal_state>>

InImageWindow == running /\ ~login_visible /\ main_window.kind = "ImageExpertWindow"

\* ---------------------------------------------------------------- QComboBox
NewCombo == [items |-> <<>>, index |-> 0]

\* clear() then addItems(items): the first item added becomes the current one
Refill(items) == [items |-> items, index |-> IF items = <<>> THEN 0 ELSE 1]

currentText(c) == IF c.index = 0 THEN "" ELSE c.items[c.index]

\* ------------------------------------------------------ signal files on disk
MatFiles == {"", "ecg.mat", "roto.mat"}
CsvFiles == {"", "datos.csv", "roto.csv"}

\* scipy.io.loadmat raises on a file that is no MATLAB container
loadmat_raises(filepath) == filepath = "roto.mat"

\* [k for k in self.mat_data if not k.startswith('__')]
MatKeys(filepath) == IF filepath = "ecg.mat" THEN <<"ecg", "nota">> ELSE <<>>

\* np.mean raises on an array that is not numeric ("nota" is a char array)
IsNumericArray(key) == key = "ecg"

\* pd.read_csv raises on an empty or undecodable file
read_csv_raises(filepath) == filepath = "roto.csv"

\* self.df.columns
Columns(filepath) == IF filepath = "datos.csv" THEN <<"t", "grupo">> ELSE <<>>

\* np.issubdtype(col.dtype, np.number)
IsNumericColumn(col) == col = "t"

\* the report of analyze_signal, values to two decimals
SignalReport(key) == "Media: 0.50 Desviacion: 0.29 Maximo: 1.00 Minimo: 0.00"

\* the report of analyze_csv: statistics and count, or counts per value
ColumnReport(col) ==
    IF IsNumericColumn(col)
    THEN "Analisis de " \o col \o ": Media: 2.50 Desviacion: 1.29 Maximo: 4.00 Minimo: 1.00 Cantidad: 4"
    ELSE "Conteo de valores para " \o col \o ": a 3 b 1"

InSignalWindow == running /\ ~login_visible /\ main_window.kind = "SignalExpertWindow"

\* ------------------------------------------------------------------ actions

Init ==
    /\ users = Bootstrap(<<>>)
    /\ dicom_files = <<>>
    /\ image_analysis = <<>>
    /\ signal_analysis = <<>>
    /\ running = TRUE
    /\ login_visible = TRUE
    /\ main_window = NoWindow
    /\ msg = NoMsg
    /\ dicom_volume = None
    /\ sliders = [a \in 1..3 |-> NewSlider]
    /\ current_image = NoImage
    /\ current_image_path = ""
    /\ cell_count = -1
    /\ mat_data = "None"
    /\ signal_combo = NewCombo
    /\ df = "None"
    /\ csv_x = NewCombo
    /\ csv_y = NewCombo

\* A new process on the same biomed.db: create_tables (IF NOT EXISTS), the
\* bootstrap, then a fresh LoginWindow.
Startup ==
    /\ users' = Bootstrap(users)
    /\ running' = TRUE
    /\ login_visible' = TRUE
    /\ main_window' = NoWindow
    /\ msg' = NoMsg
    /\ dicom_volume' = None
    /\ sliders' = [a \in 1..3 |-> NewSlider]
    /\ current_image' = NoImage
    /\ current_image_path' = ""
    /\ cell_count' = -1
    /\ mat_data' = "None"
    /\ signal_combo' = NewCombo
    /\ df' = "None"
    /\ csv_x' = NewCombo
    /\ csv_y' = NewCombo
    /\ UNCHANGED audit

\* handle_login with a login journal: a successful login appends a row
handle_login_journal(username, password) ==
    /\ running /\ login_visible
    /\ IF username = "" \/ password = ""
       THEN /\ msg' = "Por favor complete todos los campos"
            /\ UNCHANGED <<login_visible, main_window, store>>
       ELSE LET user == login_user(users, username, password)
            IN  IF user # None
                THEN /\ AuditCount < MaxRecords
                     /\ login_visible' = FALSE
                     /\ main_window' = IF main_window = NoWindow
                                       THEN MainWindow(user[1], user[2])
                                       ELSE main_window
                     /\ msg' = NoMsg
                     /\ signal_analysis' = save_signal_analysis(signal_analysis, "", "",
                                               "login", "{}", "success", user[1])
                     /\ UNCHANGED <<users, dicom_files, image_analysis>>
                ELSE /\ msg' = "Credenciales incorrectas"
                     /\ UNCHANGED <<login_visible, main_window, store>>
    /\ UNCHANGED <<running, image_state, signal_state>>

\* LoginWindow.handle_login
handle_login(username, password) ==
    /\ running /\ login_visible
    /\ IF username = "" \/ password = ""
       THEN /\ msg' = "Por favor complete todos los campos"
            /\ UNCHANGED <<login_visible, main_window>>
       ELSE LET user == login_user(users, username, password)
            IN  IF user # None
                THEN /\ login_visible' = FALSE
                     /\ main_window' = IF main_window = NoWindow
                                       THEN MainWindow(user[1], user[2])
                                       ELSE main_window
                     /\ msg' = NoMsg
                ELSE /\ msg' = "Credenciales incorrectas"
                     /\ UNCHANGED <<login_visible, main_window>>
    /\ UNCHANGED <<store, running, image_state, signal_state>>

\* handle_register without the check of empty fields
handle_register_unchecked(username, password, user_type) ==
    /\ running /\ login_visible
    /\ LET r == register_user(users, username, password, user_type)
       IN  /\ r.ok => Len(users) < MaxUsers
           /\ users' = r.users
           /\ msg' = IF r.ok THEN "Registro exitoso" ELSE "El usuario ya existe"
    /\ UNCHANGED <<audit, session, image_state, signal_state>>

\* LoginWindow.handle_register
handle_register(username, password, user_type) ==
    /\ running /\ login_visible
    /\ IF username = "" \/ password = ""
       THEN /\ msg' = "Por favor complete todos los campos"
            /\ UNCHANGED users
       ELSE LET r == register_user(users, username, password, user_type)
            IN  /\ r.ok => Len(users) < MaxUsers
                /\ users' = r.users
                /\ msg' = IF r.ok THEN "Registro exitoso" ELSE "El usuario ya existe"
    /\ UNCHANGED <<audit, session, image_state, signal_state>>

\* ---------------------------------------------------------- ImageExpertWindow

\* ImageExpertWindow.load_dicom; `shape` is the shape of the stacked slices, None
\* when listing, reading, sorting or stacking them raises
load_dicom(dir_path, shape, abort) ==
    /\ InImageWindow
    /\ UNCHANGED signal_state
    /\ IF dir_path = ""
       THEN msg' = NoMsg /\ UNCHANGED <<store, session, image_state>>
       ELSE IF shape = None
       THEN msg' = "Error al cargar DICOM" /\ UNCHANGED <<store, session, image_state>>
       ELSE LET c == ConfigureSliders(shape, sliders)
            IN  IF c.raised /\ abort
                THEN Crashed /\ UNCHANGED store
                ELSE /\ abort => c.raised
                     /\ AuditCount < MaxRecords
                     /\ dicom_volume' = shape
                     /\ sliders' = c.sliders
                     /\ dicom_files' = save_dicom_analysis(dicom_files, PatientID(dir_path),
                                           PatientName(dir_path), dir_path, "",
                                           main_window.user_id)
                     /\ msg' = IF update_dicom_view_raises(shape, c.sliders)
                               THEN "Error al cargar DICOM" ELSE NoMsg
                     /\ UNCHANGED <<users, image_analysis, signal_analysis, session,
                                    current_image, current_image_path, cell_count>>

\* ImageExpertWindow.view_nifti; `shape` is None when nib.load or get_fdata raises
view_nifti(filepath, shape, abort) ==
    /\ InImageWindow
    /\ UNCHANGED signal_state
    /\ IF filepath = ""
       THEN msg' = NoMsg /\ UNCHANGED <<store, session, image_state>>
       ELSE IF shape = None
       THEN msg' = "Error al cargar NIfTI" /\ UNCHANGED <<store, session, image_state>>
       ELSE LET c == ConfigureSliders(shape, sliders)
            IN  IF c.raised /\ abort
                THEN Crashed /\ UNCHANGED store
                ELSE /\ abort => c.raised
                     /\ dicom_volume' = shape
                     /\ sliders' = c.sliders
                     /\ msg' = IF update_dicom_view_raises(shape, c.sliders)
                               THEN "Error al cargar NIfTI" ELSE NoMsg
                     /\ UNCHANGED <<store, session, current_image, current_image_path,
                                    cell_count>>

\* ImageExpertWindow.convert_to_nifti: hasattr(self, 'dicom_volume') is always true
\* and Nifti1Image(None, ...) raises; `written` is whether nib.save succeeds
convert_to_nifti(filepath, written) ==
    /\ InImageWindow
    /\ UNCHANGED signal_state
    /\ msg' = IF dicom_volume = None THEN "Error al convertir"
              ELSE IF filepath = "" THEN NoMsg
              ELSE IF written THEN "Archivo NIfTI guardado"
              ELSE "Error al convertir"
    /\ UNCHANGED <<store, session, image_state>>

\* a slider dragged to v: valueChanged runs update_dicom_view
slider_moved(a, v, abort) ==
    /\ InImageWindow
    /\ UNCHANGED signal_state
    /\ sliders[a].enabled
    /\ v \in 0..sliders[a].maximum
    /\ v # sliders[a].value
    /\ LET sl == [sliders EXCEPT ![a].value = v]
       IN  IF update_dicom_view_raises(dicom_volume, sl) /\ abort
           THEN Crashed
           ELSE /\ abort => update_dicom_view_raises(dicom_volume, sl)
                /\ sliders' = sl
                /\ msg' = NoMsg
                /\ UNCHANGED <<session, dicom_volume, current_image, current_image_path,
                               cell_count>>
    /\ UNCHANGED store

\* ImageExpertWindow.load_image with show_image; nothing catches what show_image
\* raises on a None image
load_image(filepath, abort) ==
    /\ InImageWindow
    /\ UNCHANGED signal_state
    /\ IF filepath = ""
       THEN msg' = NoMsg /\ UNCHANGED <<session, image_state>>
       ELSE IF imread(filepath) = NoImage /\ abort
       THEN Crashed
       ELSE /\ abort => imread(filepath) = NoImage
            /\ current_image' = imread(filepath)
            /\ current_image_path' = filepath
            /\ msg' = NoMsg
            /\ UNCHANGED <<session, dicom_volume, sliders, cell_count>>
    /\ UNCHANGED store

\* ImageExpertWindow.apply_morphological
apply_morphological(op, kernel_text) ==
    /\ InImageWindow
    /\ UNCHANGED signal_state
    /\ IF current_image # NoImage
       THEN /\ AuditCount < MaxRecords
            /\ current_image' = morphologyEx(current_image, op, kernel_size(kernel_text))
            /\ image_analysis' = save_image_analysis(image_analysis, current_image_path,
                                     "morphological",
                                     MorphParams(op, kernel_size(kernel_text)),
                                     "success", main_window.user_id)
       ELSE UNCHANGED <<current_image, image_analysis>>
    /\ msg' = NoMsg
    /\ UNCHANGED <<users, dicom_files, signal_analysis, session, dicom_volume, sliders,
                   current_image_path, cell_count>>

\* count_cells that keeps the opened image it counted on as the working image
count_cells_keeps_opening ==
    /\ InImageWindow
    /\ UNCHANGED signal_state
    /\ IF current_image # NoImage
       THEN /\ AuditCount < MaxRecords
            /\ cell_count' = num_labels(current_image) - 1
            /\ current_image' = morphologyEx(current_image, "Apertura", 3)
            /\ image_analysis' = save_image_analysis(image_analysis, current_image_path,
                                     "cell_count", "{'method': 'connected_components'}",
                                     ToString(num_labels(current_image) - 1),
                                     main_window.user_id)
       ELSE UNCHANGED <<cell_count, current_image, image_analysis>>
    /\ msg' = NoMsg
    /\ UNCHANGED <<users, dicom_files, signal_analysis, session, dicom_volume, sliders,
                   current_image_path>>

\* ImageExpertWindow.count_cells
count_cells ==
    /\ InImageWindow
    /\ UNCHANGED signal_state
    /\ IF current_image # NoImage
       THEN /\ AuditCount < MaxRecords
            /\ cell_count' = num_labels(current_image) - 1
            /\ image_analysis' = save_image_analysis(image_analysis, current_image_path,
                                     "cell_count", "{'method': 'connected_components'}",
                                     ToString(num_labels(current_image) - 1),
                                     main_window.user_id)
       ELSE UNCHANGED <<cell_count, image_analysis>>
    /\ msg' = NoMsg
    /\ UNCHANGED <<users, dicom_files, signal_analysis, session, dicom_volume, sliders,
                   current_image, current_image_path>>

\* ImageExpertWindow.save_analysis; cv2.imwrite returns False on a path it cannot
\* write and raises on an extension it does not know
save_analysis(filepath, imwrite) ==
    /\ InImageWindow
    /\ UNCHANGED signal_state
    /\ msg' = IF current_image # NoImage /\ current_image_path # "" /\ filepath # ""
              THEN (IF imwrite = "raises" THEN "Error al guardar" ELSE "Imagen guardada")
              ELSE NoMsg
    /\ UNCHANGED <<store, session, image_state>>

\* --------------------------------------------------------- SignalExpertWindow

\* SignalExpertWindow.load_mat
load_mat(filepath) ==
    /\ InSignalWindow
    /\ IF filepath = ""
       THEN msg' = NoMsg /\ UNCHANGED <<signal_analysis, mat_data, signal_combo>>
       ELSE IF loadmat_raises(filepath)
       THEN /\ msg' = "Error al cargar .mat"
            /\ UNCHANGED <<signal_analysis, mat_data, signal_combo>>
       ELSE /\ AuditCount < MaxRecords
            /\ mat_data' = filepath
            /\ signal_combo' = Refill(MatKeys(filepath))
            /\ signal_analysis' = save_signal_analysis(signal_analysis, filepath, "MAT",
                                      "load", "{}", "success", main_window.user_id)
            /\ msg' = NoMsg
    /\ UNCHANGED <<users, dicom_files, image_analysis, session, image_state, df, csv_x, csv_y>>

\* the user picks the i-th array of the selector
select_signal(i) ==
    /\ InSignalWindow
    /\ i \in 1..Len(signal_combo.items)
    /\ signal_combo' = [signal_combo EXCEPT !.index = i]
    /\ msg' = NoMsg
    /\ UNCHANGED <<store, session, image_state, mat_data, df, csv_x, csv_y>>

\* SignalExpertWindow.plot_signal: hasattr(self, 'mat_data') is always true
plot_signal ==
    /\ InSignalWindow
    /\ IF currentText(signal_combo) # ""
       THEN /\ AuditCount < MaxRecords
            /\ signal_analysis' = save_signal_analysis(signal_analysis, "", "MAT", "plot",
                                      "{'signal': '" \o currentText(signal_combo) \o "'}",
                                      "success", main_window.user_id)
       ELSE UNCHANGED signal_analysis
    /\ msg' = NoMsg
    /\ UNCHANGED <<users, dicom_files, image_analysis, session, image_state, signal_state>>

\* SignalExpertWindow.analyze_signal
analyze_signal ==
    /\ InSignalWindow
    /\ IF currentText(signal_combo) = ""
       THEN msg' = NoMsg /\ UNCHANGED signal_analysis
       ELSE IF ~IsNumericArray(currentText(signal_combo))
       THEN msg' = "Error en analisis" /\ UNCHANGED signal_analysis
       ELSE /\ AuditCount < MaxRecords
            /\ msg' = SignalReport(currentText(signal_combo))
            /\ signal_analysis' = save_signal_analysis(signal_analysis, "", "MAT",
                                      "basic_analysis",
                                      "{'signal': '" \o currentText(signal_combo) \o "'}",
                                      SignalReport(currentText(signal_combo)),
                                      main_window.user_id)
    /\ UNCHANGED <<users, dicom_files, image_analysis, session, image_state, signal_state>>

\* SignalExpertWindow.load_csv
load_csv(filepath) ==
    /\ InSignalWindow
    /\ IF filepath = ""
       THEN msg' = NoMsg /\ UNCHANGED <<signal_analysis, df, csv_x, csv_y>>
       ELSE IF read_csv_raises(filepath)
       THEN /\ msg' = "Error al cargar CSV"
            /\ UNCHANGED <<signal_analysis, df, csv_x, csv_y>>
       ELSE /\ AuditCount < MaxRecords
            /\ df' = filepath
            /\ csv_x' = Refill(Columns(filepath))
            /\ csv_y' = Refill(Columns(filepath))
            /\ signal_analysis' = save_signal_analysis(signal_analysis, filepath, "CSV",
                                      "load", "{'columns': " \o ToString(Columns(filepath)) \o "}",
                                      "success", main_window.user_id)
            /\ msg' = NoMsg
    /\ UNCHANGED <<users, dicom_files, image_analysis, session, image_state,
                   mat_data, signal_combo>>

\* the user picks the i-th column as x and the j-th as y
select_columns(i, j) ==
    /\ InSignalWindow
    /\ i \in 1..Len(csv_x.items)
    /\ j \in 1..Len(csv_y.items)
    /\ csv_x' = [csv_x EXCEPT !.index = i]
    /\ csv_y' = [csv_y EXCEPT !.index = j]
    /\ msg' = NoMsg
    /\ UNCHANGED <<store, session, image_state, mat_data, signal_combo, df>>

\* SignalExpertWindow.plot_csv: hasattr(self, 'df') is always true
plot_csv ==
    /\ InSignalWindow
    /\ IF currentText(csv_x) # "" /\ currentText(csv_y) # ""
       THEN /\ AuditCount < MaxRecords
            /\ signal_analysis' = save_signal_analysis(signal_analysis, "", "CSV", "plot",
                                      "{'x_axis': '" \o currentText(csv_x) \o "', 'y_axis': '"
                                          \o currentText(csv_y) \o "'}",
                                      "success", main_window.user_id)
       ELSE UNCHANGED signal_analysis
    /\ msg' = NoMsg
    /\ UNCHANGED <<users, dicom_files, image_analysis, session, image_state, signal_state>>

\* SignalExpertWindow.analyze_csv
analyze_csv ==
    /\ InSignalWindow
    /\ IF currentText(csv_y) # ""
       THEN /\ AuditCount < MaxRecords
            /\ msg' = ColumnReport(currentText(csv_y))
            /\ signal_analysis' = save_signal_analysis(signal_analysis, "", "CSV",
                                      "basic_analysis",
                                      "{'column': '" \o currentText(csv_y) \o "'}",
                                      ColumnReport(currentText(csv_y)), main_window.user_id)
       ELSE msg' = NoMsg /\ UNCHANGED signal_analysis
    /\ UNCHANGED <<users, dicom_files, image_analysis, session, image_state, signal_state>>

\* ------------------------------------------------- a store that cannot write
\* cursor.execute or conn.commit raises sqlite3.OperationalError (read-only or
\* locked file, full disk): no row is inserted. Each action below is its
\* handler on such a store.

\* handle_register: register_user catches sqlite3.IntegrityError alone, and
\* handle_register has no try, so the slot raises
handle_register_OperationalError(username, password, user_type, abort) ==
    /\ running /\ login_visible
    /\ username # "" /\ password # ""
    /\ IF abort
       THEN Crashed /\ UNCHANGED store
       ELSE msg' = NoMsg /\ UNCHANGED <<store, session, image_state, signal_state>>

\* load_dicom: save_dicom_analysis raises after the volume and the sliders are
\* set; except Exception shows the box and update_dicom_view is not reached
load_dicom_OperationalError(dir_path, shape, abort) ==
    /\ InImageWindow
    /\ dir_path # "" /\ shape # None
    /\ LET c == ConfigureSliders(shape, sliders)
       IN  IF c.raised /\ abort
           THEN Crashed
           ELSE /\ abort => c.raised
                /\ dicom_volume' = shape
                /\ sliders' = c.sliders
                /\ msg' = "Error al cargar DICOM"
                /\ UNCHANGED <<session, current_image, current_image_path, cell_count>>
    /\ UNCHANGED <<store, signal_state>>

\* apply_morphological: save_image_analysis raises after the working image is
\* replaced and shown
apply_morphological_OperationalError(op, kernel_text) ==
    /\ InImageWindow
    /\ current_image # NoImage
    /\ Len(current_image.ops) < MaxRecords
    /\ current_image' = morphologyEx(current_image, op, kernel_size(kernel_text))
    /\ msg' = "Error en operacion"
    /\ UNCHANGED <<store, session, dicom_volume, sliders, current_image_path, cell_count,
                   signal_state>>

\* count_cells: save_image_analysis raises after the count is shown
count_cells_OperationalError ==
    /\ InImageWindow
    /\ current_image # NoImage
    /\ cell_count' = num_labels(current_image) - 1
    /\ msg' = "Error en conteo"
    /\ UNCHANGED <<store, session, dicom_volume, sliders, current_image,
                   current_image_path, signal_state>>

\* load_mat: save_signal_analysis raises after the data and the selector are set
load_mat_OperationalError(filepath) ==
    /\ InSignalWindow
    /\ filepath # "" /\ ~loadmat_raises(filepath)
    /\ mat_data' = filepath
    /\ signal_combo' = Refill(MatKeys(filepath))
    /\ msg' = "Error al cargar .mat"
    /\ UNCHANGED <<store, session, image_state, df, csv_x, csv_y>>

\* the inputs the combined specification draws from
RegNames == {"", "admin_img", "ana"}
LoginNames == RegNames \cup {"admin_sig"}
RegPasswords == {"", "clave1"}
SomeShapes == {<<MaxDim, 1, 1>>, <<1, 1, 1, 1>>}
MorphChoices == {<<"Apertura", "3x3">>, <<"Gradiente", "7x7">>}

Next ==
    \/ Startup
    \/ \E u \in LoginNames, p \in Passwords : handle_login(u, p)
    \/ \E u \in RegNames, p \in RegPasswords, t \in UserTypes : handle_register(u, p, t)
    \/ \E d \in DicomDirs, sh \in SomeShapes \cup {None}, ab \in BOOLEAN :
          (d = "" => sh = None /\ ~ab) /\ load_dicom(d, sh, ab)
    \/ \E f \in NiftiFiles, sh \in SomeShapes \cup {None}, ab \in BOOLEAN :
          (f = "" => sh = None /\ ~ab) /\ view_nifti(f, sh, ab)
    \/ \E f \in SavePaths, w \in BOOLEAN : (f = "" => w) /\ convert_to_nifti(f, w)
    \/ \E a \in 1..3, v \in 0..MaxDim, ab \in BOOLEAN : slider_moved(a, v, ab)
    \/ \E f \in ImageFiles, ab \in BOOLEAN : load_image(f, ab)
    \/ \E c \in MorphChoices : apply_morphological(c[1], c[2])
    \/ count_cells
    \/ \E f \in SavePaths, w \in {"written", "not written", "raises"} :
          (f = "" => w = "written") /\ save_analysis(f, w)
    \/ \E f \in MatFiles : load_mat(f)
    \/ \E i \in 1..2 : select_signal(i)
    \/ plot_signal
    \/ analyze_signal
    \/ \E f \in CsvFiles : load_csv(f)
    \/ \E i \in 1..2, j \in 1..2 : select_columns(i, j)
    \/ plot_csv
    \/ analyze_csv

Spec == Init /\ [][Next]_vars

\* Accounts alone: every username, password and role at the login window, and
\* restarts of the process on the same store.
NextAuth ==
    \/ Startup
    \/ \E u \in Usernames, p \in Passwords : handle_login(u, p)
    \/ \E u \in Usernames, p \in Passwords, t \in UserTypes : handle_register(u, p, t)

SpecAuth == Init /\ [][NextAuth]_vars

\* The DICOM/NIfTI tab alone, over every shape within MaxDim.
NextVolume ==
    \/ Startup
    \/ handle_login("admin_img", "admin123")
    \/ \E d \in DicomDirs, sh \in DicomShapes \cup {None}, ab \in BOOLEAN :
          (d = "" => sh = None /\ ~ab) /\ load_dicom(d, sh, ab)
    \/ \E f \in NiftiFiles, sh \in NiftiShapes \cup {None}, ab \in BOOLEAN :
          (f = "" => sh = None /\ ~ab) /\ view_nifti(f, sh, ab)
    \/ \E a \in 1..3, v \in 0..MaxDim, ab \in BOOLEAN : slider_moved(a, v, ab)

SpecVolume == Init /\ [][NextVolume]_vars

\* The image-processing tab alone: two readable images and an unreadable one,
\* every operation and kernel size.
NextImage ==
    \/ Startup
    \/ handle_login("admin_img", "admin123")
    \/ \E f \in ImageFiles \cup ReadableImages, ab \in BOOLEAN : load_image(f, ab)
    \/ \E op \in MorphOps, k \in MorphKernels : apply_morphological(op, k)
    \/ count_cells
    \/ \E f \in SavePaths, w \in {"written", "not written", "raises"} :
          (f = "" => w = "written") /\ save_analysis(f, w)

SpecImage == Init /\ [][NextImage]_vars

\* Both windows on a store whose writes may fail at any time.
NextFaults ==
    \/ Startup
    \/ \E u \in {"admin_img", "admin_sig"} : handle_login(u, "admin123")
    \/ \E u \in RegNames, p \in RegPasswords, t \in UserTypes : handle_register(u, p, t)
    \/ \E u \in RegNames, p \in RegPasswords, t \in UserTypes, ab \in BOOLEAN :
          handle_register_OperationalError(u, p, t, ab)
    \/ \E sh \in SomeShapes, ab \in BOOLEAN : load_dicom("estudio", sh, ab)
    \/ \E sh \in SomeShapes, ab \in BOOLEAN : load_dicom_OperationalError("estudio", sh, ab)
    \/ load_image("celulas.png", FALSE)
    \/ \E c \in MorphChoices : apply_morphological(c[1], c[2])
    \/ \E c \in MorphChoices : apply_morphological_OperationalError(c[1], c[2])
    \/ count_cells
    \/ count_cells_OperationalError
    \/ \E f \in MatFiles : load_mat(f)
    \/ \E f \in MatFiles : load_mat_OperationalError(f)

SpecFaults == Init /\ [][NextFaults]_vars

\* ================================================================== claims
IsPrefix(s, t) == Len(s) <= Len(t) /\ \A i \in 1..Len(s) : s[i] = t[i]

Exists(tbl, username) == \E u \in Range(tbl) : u.username = username

UserIds == {u.id : u \in Range(users)}

AllAudit == Range(dicom_files) \cup Range(image_analysis) \cup Range(signal_analysis)

\* C1: registering a non-empty username that the store does not hold succeeds
\* with the next id, authenticate with the same credentials then returns that id
\* and role, and whatever authenticate returns for any credentials it returns
\* after every later step, so the answer survives all later registrations,
\* authentications and restarts.
C1_RegisterThenAuthenticate ==
    [][ /\ \A u \in Usernames \ {""}, p \in Passwords, t \in UserTypes :
              ~Exists(users, u) =>
                  LET r == register_user(users, u, p, t)
                  IN  r.ok /\ login_user(r.users, u, p) = <<Len(users) + 1, t>>
        /\ \A u \in Usernames \ {""}, p \in Passwords \ {""}, t \in UserTypes :
              (handle_register(u, p, t) /\ ~Exists(users, u)) =>
                  /\ msg' = "Registro exitoso"
                  /\ login_user(users', u, p) = <<Len(users) + 1, t>>
        /\ \A u \in Usernames, p \in Passwords :
              login_user(users, u, p) # None =>
                  login_user(users', u, p) = login_user(users, u, p)
      ]_vars

\* C1 witness: ana, registered before luis, is the user of the running session
C1_Witness ==
    /\ Len(users) = 4
    /\ users[3].username = "ana"
    /\ users[4].username = "luis"
    /\ main_window.user_id = 3

\* C2: registering a username the store holds returns failure and changes no
\* row: the table is the same, every authenticate answers as before, and the
\* password of the rejected registration opens the account only if it is the
\* stored one.
C2_DuplicateRejected ==
    [][ /\ \A u \in Usernames, p \in Passwords, t \in UserTypes :
              Exists(users, u) =>
                  LET r == register_user(users, u, p, t)
                  IN  ~r.ok /\ r.users = users
        /\ \A u \in Usernames \ {""}, p \in Passwords \ {""}, t \in UserTypes :
              (handle_register(u, p, t) /\ Exists(users, u)) =>
                  /\ msg' = "El usuario ya existe"
                  /\ users' = users
                  /\ \A q \in Passwords : login_user(users', u, q) = login_user(users, u, q)
                  /\ (\A row \in Range(users) :
                          row.username = u => row.password # sha256(p))
                        => login_user(users', u, p) = None
      ]_vars

\* C2 witness: a registration of ana was rejected while ana's account exists
C2_Witness ==
    /\ msg = "El usuario ya existe"
    /\ Exists(users, "ana")

\* C3: authenticate returns an identity only for a row whose username and
\* digest both match; a wrong password for a stored username and an unknown
\* username both return None, and a failed login shows the one notification and
\* changes nothing else, whichever of the two it was.
C3_NoMatchIndistinguishable ==
    /\ [](\A u \in Usernames, p \in Passwords :
              LET got == login_user(users, u, p)
              IN  /\ got # None =>
                        \E row \in Range(users) :
                            /\ row.username = u
                            /\ row.password = sha256(p)
                            /\ got = <<row.id, row.user_type>>
                  /\ (\A row \in Range(users) :
                          row.username = u => row.password # sha256(p)) => got = None)
    /\ [][ \A u \in Usernames \ {""}, p \in Passwords \ {""} :
              (handle_login(u, p) /\ login_user(users, u, p) = None) =>
                  /\ msg' = "Credenciales incorrectas"
                  /\ UNCHANGED <<store, session, image_state, signal_state>>
         ]_vars

\* C3 witness: a login failed while the store holds ana, so both a wrong
\* password for ana and an unknown username luis are failures of this state
C3_Witness ==
    /\ msg = "Credenciales incorrectas"
    /\ Exists(users, "ana")
    /\ ~Exists(users, "luis")

\* C4: the session starts with no window; the window opened by a successful
\* login is the image window for a stored role imagen and the signal window for
\* senal, for the id of that user; once opened, no step of the same process
\* changes it or shows the login window again.
C4_SessionFixed ==
    /\ main_window = NoWindow
    /\ login_visible = TRUE
    /\ [](main_window # NoWindow =>
              /\ ~login_visible
              /\ \E row \in Range(users) :
                    /\ row.id = main_window.user_id
                    /\ main_window.kind = IF row.user_type = "imagen"
                                          THEN "ImageExpertWindow"
                                          ELSE "SignalExpertWindow")
    /\ [][ /\ (main_window = NoWindow /\ main_window' # NoWindow) =>
                \E u \in Usernames, p \in Passwords :
                    /\ handle_login(u, p)
                    /\ login_user(users, u, p) = <<main_window'.user_id,
                           IF main_window'.kind = "ImageExpertWindow"
                           THEN "imagen" ELSE "senal">>
           /\ (main_window # NoWindow /\ ~Startup) =>
                (main_window' = main_window /\ ~login_visible')
         ]_vars

\* C4 witness: a signal session that has gone on to record two operations
C4_Witness ==
    /\ main_window.kind = "SignalExpertWindow"
    /\ Len(signal_analysis) = 2
    /\ \A r \in Range(signal_analysis) : r.user_id = main_window.user_id

\* C5: every successful load or operation of either workflow appends exactly
\* one audit record, owned by the user of the session.
C5_EverySuccessAudited ==
    [][ LET done ==
              \/ \E d \in DicomDirs \ {""}, sh \in SomeShapes, ab \in BOOLEAN :
                    load_dicom(d, sh, ab) /\ running' /\ msg' = NoMsg
              \/ \E f \in NiftiFiles \ {""}, sh \in SomeShapes, ab \in BOOLEAN :
                    view_nifti(f, sh, ab) /\ running' /\ msg' = NoMsg
              \/ \E f \in SavePaths : convert_to_nifti(f, TRUE) /\ msg' = "Archivo NIfTI guardado"
              \/ \E f \in ImageFiles \ {""}, ab \in BOOLEAN :
                    load_image(f, ab) /\ current_image' # NoImage
              \/ \E c \in MorphChoices :
                    apply_morphological(c[1], c[2]) /\ current_image # NoImage
              \/ count_cells /\ current_image # NoImage
              \/ \E f \in SavePaths : save_analysis(f, "written") /\ msg' = "Imagen guardada"
              \/ \E f \in MatFiles \ {""} : load_mat(f) /\ msg' = NoMsg
              \/ plot_signal /\ currentText(signal_combo) # ""
              \/ analyze_signal /\ msg' = SignalReport(currentText(signal_combo))
              \/ \E f \in CsvFiles \ {""} : load_csv(f) /\ msg' = NoMsg
              \/ plot_csv /\ currentText(csv_x) # "" /\ currentText(csv_y) # ""
              \/ analyze_csv /\ currentText(csv_y) # ""
            added == (Range(dicom_files') \cup Range(image_analysis')
                          \cup Range(signal_analysis')) \ AllAudit
        IN  done =>
              /\ Len(dicom_files') + Len(image_analysis') + Len(signal_analysis')
                     = AuditCount + 1
              /\ \A r \in added : r.user_id = main_window.user_id
      ]_vars

\* C6: an operation that is cancelled, lacks its data, or ends in an error
\* notification leaves the three audit tables as they were.
C6_NoAuditOnFailure ==
    [][ LET errors == {"Error al cargar DICOM", "Error al cargar NIfTI",
                       "Error al convertir", "Error al guardar",
                       "Error al cargar .mat", "Error en analisis",
                       "Error al cargar CSV"}
            cancelled ==
              \/ \E sh \in SomeShapes \cup {None}, ab \in BOOLEAN :
                    load_dicom("", sh, ab) \/ view_nifti("", sh, ab)
              \/ \E ab \in BOOLEAN : load_image("", ab)
              \/ load_mat("")
              \/ load_csv("")
            lacking ==
              \/ \E c \in MorphChoices :
                    apply_morphological(c[1], c[2]) /\ current_image = NoImage
              \/ count_cells /\ current_image = NoImage
              \/ plot_signal /\ currentText(signal_combo) = ""
              \/ analyze_signal /\ currentText(signal_combo) = ""
              \/ plot_csv /\ (currentText(csv_x) = "" \/ currentText(csv_y) = "")
              \/ analyze_csv /\ currentText(csv_y) = ""
        IN  (msg' \in errors \/ cancelled \/ lacking) => UNCHANGED audit
      ]_vars

\* C7: every row of the four tables stays where it is with the same fields:
\* each table before a step is a prefix of the table after it.
C7_AppendOnly ==
    [][ /\ IsPrefix(users, users')
        /\ IsPrefix(dicom_files, dicom_files')
        /\ IsPrefix(image_analysis, image_analysis')
        /\ IsPrefix(signal_analysis, signal_analysis')
      ]_vars

\* C7 witness: a registered user beyond the seeds and two image-analysis rows
C7_Witness ==
    /\ Len(users) = 3
    /\ Len(image_analysis) = 2
    /\ image_analysis[1].analysis_type = "morphological"

\* C8: the user_id of every row of dicom_files, image_analysis and
\* signal_analysis is the id of a row of users.
C8_OwnerExists ==
    \A r \in AllAudit : r.user_id \in UserIds

\* C8 witness: a study row and an image-analysis row owned by the registered
\* user ana
C8_Witness ==
    /\ Len(dicom_files) = 1
    /\ Len(image_analysis) = 1
    /\ \E u \in Range(users) :
          /\ u.username = "ana"
          /\ dicom_files[1].user_id = u.id
          /\ image_analysis[1].user_id = u.id

\* C9: in every state the store holds exactly one admin_img, an image expert,
\* and exactly one admin_sig, a signal expert, both authenticating with
\* admin123, and the bootstrap of a startup leaves the users table as it is.
C9_BootstrapIdempotent ==
    /\ Cardinality({i \in 1..Len(users) : users[i].username = "admin_img"}) = 1
    /\ Cardinality({i \in 1..Len(users) : users[i].username = "admin_sig"}) = 1
    /\ login_user(users, "admin_img", "admin123") # None
    /\ login_user(users, "admin_img", "admin123")[2] = "imagen"
    /\ login_user(users, "admin_sig", "admin123") # None
    /\ login_user(users, "admin_sig", "admin123")[2] = "senal"
    /\ Bootstrap(users) = users

\* C9 witness: a login window with nothing shown yet on a store that already
\* holds two registered users: the process was started again after them
C9_Witness ==
    /\ Len(users) = 4
    /\ running /\ login_visible
    /\ msg = NoMsg

Loaded == <<dicom_volume, current_image, current_image_path, mat_data,
            signal_combo.items, df>>

LoadErrors == {"Error al cargar DICOM", "Error al cargar NIfTI",
               "Error al cargar .mat", "Error al cargar CSV"}

\* C11: a load of a slice directory, volume container, 2D image, matrix file or
\* table that fails on its input shows an error notification and leaves the
\* loaded volume, working image and path, matrix data and names, and table as
\* they were before the attempt.
C11_FailedLoadLeavesState ==
    [][ LET failed ==
              \/ \E d \in DicomDirs \ {""}, sh \in SomeShapes \cup {None}, ab \in BOOLEAN :
                    load_dicom(d, sh, ab)
                      /\ (sh = None \/ update_dicom_view_raises(sh, ConfigureSliders(sh, sliders).sliders))
              \/ \E f \in NiftiFiles \ {""}, sh \in SomeShapes \cup {None}, ab \in BOOLEAN :
                    view_nifti(f, sh, ab)
                      /\ (sh = None \/ update_dicom_view_raises(sh, ConfigureSliders(sh, sliders).sliders))
              \/ \E f \in ImageFiles \ {""}, ab \in BOOLEAN :
                    load_image(f, ab) /\ imread(f) = NoImage
              \/ \E f \in MatFiles \ {""} : load_mat(f) /\ loadmat_raises(f)
              \/ \E f \in CsvFiles \ {""} : load_csv(f) /\ read_csv_raises(f)
        IN  failed => (msg' \in LoadErrors /\ Loaded' = Loaded)
      ]_vars

\* C12: authenticate only reads: a login attempt that consults the store,
\* whether it succeeds or fails, leaves the users table and the three audit
\* tables exactly as they were.
C12_AuthenticateReadsOnly ==
    [][ \A u \in LoginNames \ {""}, p \in Passwords \ {""} :
            handle_login(u, p) =>
                /\ users' = users
                /\ dicom_files' = dicom_files
                /\ image_analysis' = image_analysis
                /\ signal_analysis' = signal_analysis
                /\ \A v \in LoginNames, q \in Passwords :
                      login_user(users', v, q) = login_user(users, v, q)
      ]_vars

\* C12 witness: a signal session opened by a login on a store that already
\* held a study row and an image-analysis row
C12_Witness ==
    /\ main_window.kind = "SignalExpertWindow"
    /\ Len(dicom_files) = 1
    /\ Len(image_analysis) = 1
    /\ Len(signal_analysis) = 0

\* every text a QMessageBox.critical of the two workflows starts with
ErrorNotifications ==
    LoadErrors \cup {"Error al convertir", "Error al guardar", "Error al graficar",
                     "Error en analisis", "Error en operacion", "Error en conteo"}

\* C13: export-volume with no volume loaded, persist-image with no image loaded
\* and plot-array with no array loaded or selected each show an error
\* notification, write no file (no success notification follows a write),
\* append no audit record and leave the working state unchanged.
C13_MissingDataFailsVisibly ==
    [][ LET lacking ==
              \/ \E f \in SavePaths, w \in BOOLEAN :
                    convert_to_nifti(f, w) /\ dicom_volume = None
              \/ \E f \in SavePaths, w \in {"written", "not written", "raises"} :
                    save_analysis(f, w) /\ current_image = NoImage
              \/ plot_signal /\ (mat_data = "None" \/ currentText(signal_combo) = "")
        IN  lacking =>
              /\ msg' \in ErrorNotifications
              /\ msg' \notin {"Archivo NIfTI guardado", "Imagen guardada"}
              /\ UNCHANGED <<audit, image_state, signal_state>>
      ]_vars

\* the rows of image_analysis written by apply_morphological
MorphRows == SelectSeq(image_analysis, LAMBDA r : r.analysis_type = "morphological")

\* C14: a morphological operation on a loaded image replaces the working image
\* with its result on the working image and appends one image-analysis record
\* with the path of the most recently loaded image and the operation name and
\* kernel size of that step, the size being 3, 5 or 7; so the working image is
\* the loaded image with the chosen operations applied in order, and the last
\* records carry these operations in the same order.
C14_MorphologicalChain ==
    /\ [](current_image # NoImage =>
            /\ current_image.src = current_image_path
            /\ Len(current_image.ops) <= Len(MorphRows)
            /\ \A i \in 1..Len(current_image.ops) :
                  LET row == MorphRows[Len(MorphRows) - Len(current_image.ops) + i]
                      step == current_image.ops[i]
                  IN  /\ row.file_path = current_image.src
                      /\ row.parameters = MorphParams(step[1], step[2])
                      /\ step[1] \in MorphOps
                      /\ step[2] \in {3, 5, 7})
    /\ [][ \A op \in MorphOps, k \in MorphKernels :
              (apply_morphological(op, k) /\ current_image # NoImage) =>
                  /\ current_image'.src = current_image.src
                  /\ current_image'.ops = Append(current_image.ops, <<op, kernel_size(k)>>)
                  /\ current_image_path' = current_image_path
                  /\ image_analysis' = Append(image_analysis,
                         [id |-> Len(image_analysis) + 1,
                          file_path |-> current_image_path,
                          analysis_type |-> "morphological",
                          parameters |-> MorphParams(op, kernel_size(k)),
                          result |-> "success",
                          user_id |-> main_window.user_id])
                  /\ dicom_files' = dicom_files
                  /\ signal_analysis' = signal_analysis
         ]_vars

\* C14 witness: the loaded tejido.png, closed with a 5x5 kernel
\* and then reduced to its 7x7 gradient, with the two records in that order
C14_Witness ==
    /\ current_image = [src |-> "tejido.png",
                        ops |-> << <<"Cierre", 5>>, <<"Gradiente", 7>> >>]
    /\ Len(image_analysis) = 2
    /\ image_analysis[1].parameters = "{'operation': 'Cierre', 'kernel_size': 5}"
    /\ image_analysis[2].parameters = "{'operation': 'Gradiente', 'kernel_size': 7}"
    /\ image_analysis[2].file_path = "tejido.png"

\* C15: a login or a registration with an empty username or an empty password
\* is rejected with the notification and does not reach the store: the users
\* table is unchanged, no window opens and the login window stays; and no row
\* of users ever has an empty username.
C15_EmptyCredentialsRejected ==
    /\ [](\A row \in Range(users) : row.username # "")
    /\ [][ \A u \in Usernames, p \in Passwords, t \in UserTypes :
              ((u = "" \/ p = "") /\ (handle_login(u, p) \/ handle_register(u, p, t))) =>
                  /\ msg' = "Por favor complete todos los campos"
                  /\ users' = users
                  /\ login_visible' = TRUE
                  /\ main_window' = NoWindow
                  /\ \A v \in Usernames, q \in Passwords :
                        login_user(users', v, q) = login_user(users, v, q)
         ]_vars

\* C15 witness: the notification of missing fields at the login window, on a
\* store that holds one registered user beyond the seeds
C15_Witness ==
    /\ msg = "Por favor complete todos los campos"
    /\ login_visible = TRUE
    /\ main_window = NoWindow
    /\ Len(users) = 3

\* C16: when a store write fails for another reason than a duplicate username,
\* the registration or workflow action that made it shows an error
\* notification; it shows neither a success nor the duplicate-username
\* notification, and it does not end without any.
C16_WriteFailureReported ==
    [][ LET failed ==
              \/ \E u \in RegNames, p \in RegPasswords, t \in UserTypes, ab \in BOOLEAN :
                    handle_register_OperationalError(u, p, t, ab)
              \/ \E sh \in SomeShapes, ab \in BOOLEAN :
                    /\ load_dicom_OperationalError("estudio", sh, ab)
                    /\ ~ConfigureSliders(sh, sliders).raised
              \/ \E c \in MorphChoices : apply_morphological_OperationalError(c[1], c[2])
              \/ count_cells_OperationalError
              \/ \E f \in MatFiles : load_mat_OperationalError(f)
        IN  failed =>
              /\ msg' \notin {NoMsg, "Registro exitoso", "El usuario ya existe"}
              /\ running'
              /\ UNCHANGED store
      ]_vars

\* each slider index is an index of its axis of the volume
IndicesInRange(vol, sl) ==
    \A a \in 1..3 : a <= Len(vol) => sl[a].value \in 0..(vol[a] - 1)

\* the runs of update_dicom_view of one load of `sh`: the callbacks of the loop
\* and the refresh that ends the load; where a raising slot aborts the process,
\* the runs up to the first that raises
RunsOfLoad(sh, ab) ==
    LET all == RefreshesFrom(sh, sliders, 1) \o <<ConfigureSliders(sh, sliders).sliders>>
        bad == {i \in 1..Len(all) : update_dicom_view_raises(sh, all[i])}
    IN  IF ab /\ bad # {}
        THEN SubSeq(all, 1, CHOOSE i \in bad : \A j \in bad : i <= j)
        ELSE all

\* C17: at every run of the cross-section refresh, each slider index lies
\* within [0, dim - 1] of its axis of the volume stored at that moment: at the
\* callbacks that run while a load reconfigures the sliders one after another,
\* at the refresh that ends a load, and when the user moves a slider, over
\* every sequence of loads.
C17_RefreshIndicesInRange ==
    [][ /\ \A sh \in NiftiShapes, ab \in BOOLEAN :
              ( \/ \E d \in DicomDirs \ {""} : load_dicom(d, sh, ab)
                \/ \E f \in NiftiFiles \ {""} : view_nifti(f, sh, ab) ) =>
                  \A i \in 1..Len(RunsOfLoad(sh, ab)) :
                      IndicesInRange(sh, RunsOfLoad(sh, ab)[i])
        /\ \A a \in 1..3, v \in 0..MaxDim, ab \in BOOLEAN :
              slider_moved(a, v, ab) =>
                  IndicesInRange(dicom_volume, [sliders EXCEPT ![a].value = v])
      ]_vars

\* C18: a cell count on a loaded image leaves the working image and its path
\* as they were, shows num_labels - 1 and appends one cell-count record with
\* that number; so a count right after it finds the same number, and a
\* morphological operation after it gives what it would have given without
\* the count.
C18_CountLeavesImage ==
    [][ (count_cells /\ current_image # NoImage) =>
            /\ current_image' = current_image
            /\ current_image_path' = current_image_path
            /\ cell_count' = num_labels(current_image) - 1
            /\ num_labels(current_image') - 1 = cell_count'
            /\ image_analysis' = Append(image_analysis,
                   [id |-> Len(image_analysis) + 1,
                    file_path |-> current_image_path,
                    analysis_type |-> "cell_count",
                    parameters |-> "{'method': 'connected_components'}",
                    result |-> ToString(num_labels(current_image) - 1),
                    user_id |-> main_window.user_id])
            /\ dicom_files' = dicom_files
            /\ signal_analysis' = signal_analysis
            /\ \A op \in MorphOps, k \in MorphKernels :
                  morphologyEx(current_image', op, kernel_size(k))
                      = morphologyEx(current_image, op, kernel_size(k))
      ]_vars

\* C18 witness: a loaded image counted twice, the same number in the last two
\* records and on the label, the working image still the loaded one
C18_Witness ==
    /\ Len(image_analysis) >= 2
    /\ LET n == Len(image_analysis)
       IN  /\ image_analysis[n].analysis_type = "cell_count"
           /\ image_analysis[n - 1].analysis_type = "cell_count"
           /\ image_analysis[n].result = image_analysis[n - 1].result
           /\ image_analysis[n].result = ToString(cell_count)
           /\ image_analysis[n].file_path = current_image_path
    /\ current_image = imread(current_image_path)
    /\ current_image # NoImage
    /\ cell_count = num_labels(current_image) - 1
====
